---- MODULE Spec2Model ----
(***************************************************************************)
(* Model of qiskit/dagcircuit/dagnode.py: the DAGNode class.               *)
(*                                                                         *)
(* A DAGNode object holds an integer _node_id and a REFERENCE to a Python  *)
(* dict, data_dict.  Objects and dicts live on a heap: a node is its       *)
(* address in `nodes`, a dict is its address in `heap`, so that the        *)
(* constructor's "self.data_dict = data_dict" (no copy) and the identity   *)
(* based hash are modelled as the code has them.                           *)
(*                                                                         *)
(* A dict is a function whose DOMAIN is the set of keys present.           *)
(* Python's None is the value NONE.  A call returns Return(v) or raises    *)
(* Raise(e); `ret` records the last call made, its arguments and outcome.  *)
(* `assigned` keeps, for each node, the nid its constructor was given.     *)
(***************************************************************************)
EXTENDS Integers, Sequences, FiniteSets, TLC

VARIABLES nodes, heap, ret, assigned

vars == <<nodes, heap, ret, assigned>>

\* ---- bounds and input sets ----
\* Constructor calls made in Spec.
MaxNodes == 2

NONE == "<None>"

\* nid defaults to -1; the caller may pass any integer.
DefaultNid == -1
NodeIds == {DefaultNid, 0}

Keys == {"type", "op", "name", "qargs", "cargs", "condition", "wire"}

\* The dicts a caller hands to the constructor in Spec: a barrier operation
\* node, an input terminal, and a node under construction (nothing set yet).
Payloads ==
    { [type |-> "op", op |-> "g1", name |-> "barrier", qargs |-> <<"q0", "q1">>,
       cargs |-> <<"c0">>, condition |-> "c==1"],
      [type |-> "in", name |-> "q0", wire |-> "q0"],
      <<>> }

NewNames == {"barrier"}
NewQargs == {<<"q1", "q0">>}

\* The dicts semantic_eq is applied to in SpecEq.
OpPayloads ==
    { [type |-> "op", op |-> o, name |-> n, qargs |-> q, cargs |-> <<>>,
       condition |-> NONE] :
         o \in {"g1", "g2"}, n \in {"barrier", "x"},
         q \in {<<"q0", "q1">>, <<"q1", "q0">>, <<"q0">>} }

CondPayloads ==
    { [type |-> "op", op |-> "g1", name |-> n, qargs |-> <<"q0", "q1">>,
       cargs |-> c, condition |-> "c==1"] :
         n \in {"barrier", "x"}, c \in {<<>>, <<"c0">>} }

TerminalPayloads ==
    { [type |-> t, name |-> n, wire |-> "q0"] :
         t \in {"in", "out"}, n \in {"barrier", "q0"} }

PartialPayloads ==
    { <<>>,
      [name |-> "barrier"],
      [name |-> NONE],
      [name |-> "barrier", qargs |-> <<>>],
      [name |-> "barrier", qargs |-> <<"q0", "q0">>],
      [name |-> "x", qargs |-> <<"q0", "q0">>],
      [name |-> "x", qargs |-> <<"q0">>],
      [type |-> "op", name |-> "x", qargs |-> <<"q0">>] }

EqPayloads == OpPayloads \cup CondPayloads \cup TerminalPayloads \cup PartialPayloads

\* ---- Python primitives ----
Return(v) == [kind |-> "return", val |-> v]
Raise(e) == [kind |-> "raise", exc |-> e]

\* dict.get(key, default)
dict_get(d, k, default) == IF k \in DOMAIN d THEN d[k] ELSE default

\* d[key] = value
dict_setitem(d, k, v) == [x \in (DOMAIN d) \cup {k} |-> IF x = k THEN v ELSE d[x]]

\* set(list)
py_set(s) == {s[i] : i \in 1..Len(s)}

Addr == 1..Len(nodes)

data_dict(n) == heap[nodes[n].data_dict]

\* ---- accessors ----
type(n) == Return(dict_get(data_dict(n), "type", NONE))

\* Variant: the type is read with a subscript, as wire reads it.
op_subscript(n) ==
    IF "type" \notin DOMAIN data_dict(n)
    THEN Raise("KeyError")
    ELSE IF data_dict(n)["type"] # "op"
         THEN Raise("QiskitError")
         ELSE Return(dict_get(data_dict(n), "op", NONE))

op(n) ==
    IF "type" \notin DOMAIN data_dict(n) \/ data_dict(n)["type"] # "op"
    THEN Raise("QiskitError")
    ELSE Return(dict_get(data_dict(n), "op", NONE))

name(n) == Return(dict_get(data_dict(n), "name", NONE))

\* Variant: data_dict['qargs'] instead of data_dict.get('qargs', []).
qargs_subscript(n) ==
    IF "qargs" \in DOMAIN data_dict(n)
    THEN Return(data_dict(n)["qargs"])
    ELSE Raise("KeyError")

qargs(n) == Return(dict_get(data_dict(n), "qargs", <<>>))

cargs(n) == Return(dict_get(data_dict(n), "cargs", <<>>))

condition(n) == Return(dict_get(data_dict(n), "condition", NONE))

\* self.data_dict['type'] is a subscript: KeyError when the key is absent.
wire(n) ==
    IF "type" \notin DOMAIN data_dict(n)
    THEN Raise("KeyError")
    ELSE IF data_dict(n)["type"] \notin {"in", "out"}
         THEN Raise("QiskitError")
         ELSE Return(dict_get(data_dict(n), "wire", NONE))

\* ---- ordering, hash, equality ----
\* Variant: <= for <.
lt_or_equal(a, b) == nodes[a]._node_id <= nodes[b]._node_id

lt(a, b) == nodes[a]._node_id < nodes[b]._node_id

gt(a, b) == nodes[a]._node_id > nodes[b]._node_id

\* id(self): the object's address.
id(n) == n

hash(n) == id(n)

\* Variant: an __eq__ that compares payloads.
eq_by_payload(a, b) == data_dict(a) = data_dict(b)

\* No __eq__ is defined: object's default, identity.
eq(a, b) == id(a) = id(b)

\* ---- semantic_eq ----
\* Variant: only node1's name is tested for 'barrier'.
semantic_eq_first_barrier(node1, node2) ==
    IF name(node1).val = "barrier"
    THEN py_set(qargs(node1).val) = py_set(qargs(node2).val)
    ELSE data_dict(node1) = data_dict(node2)

\* Variant: either name being 'barrier' selects the set comparison.
semantic_eq_any_barrier(node1, node2) ==
    IF name(node1).val = "barrier" \/ name(node2).val = "barrier"
    THEN py_set(qargs(node1).val) = py_set(qargs(node2).val)
    ELSE data_dict(node1) = data_dict(node2)

\* Variant: no barrier case, the dicts are always compared.
semantic_eq_no_barrier_case(node1, node2) == data_dict(node1) = data_dict(node2)

\* Variant: the non-barrier case compares what the properties return
\* instead of the dicts, so an unset key and its default are the same.
semantic_eq_by_accessors(node1, node2) ==
    IF name(node1).val = "barrier" /\ name(node1).val = name(node2).val
    THEN py_set(qargs(node1).val) = py_set(qargs(node2).val)
    ELSE /\ type(node1) = type(node2)
         /\ name(node1) = name(node2)
         /\ qargs(node1) = qargs(node2)
         /\ cargs(node1) = cargs(node2)
         /\ condition(node1) = condition(node2)
         /\ dict_get(data_dict(node1), "op", NONE) = dict_get(data_dict(node2), "op", NONE)
         /\ dict_get(data_dict(node1), "wire", NONE) = dict_get(data_dict(node2), "wire", NONE)

semantic_eq(node1, node2) ==
    IF name(node1).val = "barrier" /\ name(node1).val = name(node2).val
    THEN py_set(qargs(node1).val) = py_set(qargs(node2).val)
    ELSE data_dict(node1) = data_dict(node2)

\* ---- state machine ----
Call(o, a, r) == [op |-> o, args |-> a, out |-> r]

Init ==
    /\ nodes = <<>>
    /\ heap = <<>>
    /\ ret = Call("none", <<>>, Return(NONE))
    /\ assigned = <<>>

\* DAGNode(data_dict, nid): stores both verbatim.  The caller passes either
\* a dict it has just built or a dict object that already exists.
init(nid) ==
    /\ Len(nodes) < MaxNodes
    /\ \/ \E d \in Payloads :
            /\ heap' = Append(heap, d)
            /\ nodes' = Append(nodes, [_node_id |-> nid, data_dict |-> Len(heap) + 1])
       \/ \E r \in 1..Len(heap) :
            /\ heap' = heap
            /\ nodes' = Append(nodes, [_node_id |-> nid, data_dict |-> r])
    /\ ret' = Call("init", <<Len(nodes) + 1>>, Return(NONE))
    /\ assigned' = Append(assigned, nid)

set_name(n, new_name) ==
    /\ heap' = [heap EXCEPT ![nodes[n].data_dict] = dict_setitem(@, "name", new_name)]
    /\ ret' = Call("set_name", <<n, new_name>>, Return(NONE))
    /\ UNCHANGED <<nodes, assigned>>

set_qargs(n, new_qargs) ==
    /\ heap' = [heap EXCEPT ![nodes[n].data_dict] = dict_setitem(@, "qargs", new_qargs)]
    /\ ret' = Call("set_qargs", <<n, new_qargs>>, Return(NONE))
    /\ UNCHANGED <<nodes, assigned>>

get(o, n) ==
    /\ ret' = Call(o, <<n>>,
                   CASE o = "type" -> type(n)
                     [] o = "op" -> op(n)
                     [] o = "name" -> name(n)
                     [] o = "qargs" -> qargs(n)
                     [] o = "cargs" -> cargs(n)
                     [] o = "condition" -> condition(n)
                     [] o = "wire" -> wire(n))
    /\ UNCHANGED <<nodes, heap, assigned>>

call_lt(a, b) ==
    /\ ret' = Call("lt", <<a, b>>, Return(lt(a, b)))
    /\ UNCHANGED <<nodes, heap, assigned>>

call_gt(a, b) ==
    /\ ret' = Call("gt", <<a, b>>, Return(gt(a, b)))
    /\ UNCHANGED <<nodes, heap, assigned>>

call_eq(a, b) ==
    /\ ret' = Call("eq", <<a, b>>, Return(eq(a, b)))
    /\ UNCHANGED <<nodes, heap, assigned>>

call_semantic_eq(a, b) ==
    /\ ret' = Call("semantic_eq", <<a, b>>, Return(semantic_eq(a, b)))
    /\ UNCHANGED <<nodes, heap, assigned>>

Next ==
    \/ \E nid \in NodeIds : init(nid)
    \/ \E n \in Addr, v \in NewNames : set_name(n, v)
    \/ \E n \in Addr, v \in NewQargs : set_qargs(n, v)
    \/ \E n \in Addr, o \in Keys : get(o, n)
    \/ \E a, b \in Addr : call_lt(a, b)
    \/ \E a, b \in Addr : call_gt(a, b)
    \/ \E a, b \in Addr : call_eq(a, b)
    \/ \E a, b \in Addr : call_semantic_eq(a, b)

Spec == Init /\ [][Next]_vars

\* semantic_eq as a pure function of its arguments: three nodes built from
\* any three payloads, each with a dict of its own, then compared pairwise.
InitEq ==
    /\ \E d1, d2, d3 \in EqPayloads : heap = <<d1, d2, d3>>
    /\ nodes = <<[_node_id |-> DefaultNid, data_dict |-> 1],
                 [_node_id |-> DefaultNid, data_dict |-> 2],
                 [_node_id |-> DefaultNid, data_dict |-> 3]>>
    /\ ret = Call("none", <<>>, Return(NONE))
    /\ assigned = <<DefaultNid, DefaultNid, DefaultNid>>

NextEq == \E a, b \in Addr : call_semantic_eq(a, b)

SpecEq == InitEq /\ [][NextEq]_vars

\* ---- helpers for the properties ----
IsCall(o) == ret.op = o

Arg(i) == ret.args[i]

BothBarrier(a, b) == name(a).val = "barrier" /\ name(b).val = "barrier"

\* The two dicts hold the same keys with the same values.
FieldsEqual(a, b) ==
    \A k \in Keys :
        /\ (k \in DOMAIN data_dict(a)) <=> (k \in DOMAIN data_dict(b))
        /\ (k \in DOMAIN data_dict(a) /\ k \in DOMAIN data_dict(b))
               => data_dict(a)[k] = data_dict(b)[k]

\* Same fields except the quantum operands, which hold the same bits in a
\* different order.
QargsReordered(a, b) ==
    /\ \A k \in Keys \ {"qargs"} :
          /\ (k \in DOMAIN data_dict(a)) <=> (k \in DOMAIN data_dict(b))
          /\ (k \in DOMAIN data_dict(a) /\ k \in DOMAIN data_dict(b))
                 => data_dict(a)[k] = data_dict(b)[k]
    /\ "qargs" \in DOMAIN data_dict(a) /\ "qargs" \in DOMAIN data_dict(b)
    /\ data_dict(a)["qargs"] # data_dict(b)["qargs"]
    /\ Len(data_dict(a)["qargs"]) = Len(data_dict(b)["qargs"])
    /\ \A q \in {"q0", "q1"} :
          (\E i \in DOMAIN data_dict(a)["qargs"] : data_dict(a)["qargs"][i] = q)
          <=> (\E i \in DOMAIN data_dict(b)["qargs"] : data_dict(b)["qargs"][i] = q)

SameOperandSet(a, b) ==
    \A q \in {"q0", "q1"} :
        (\E i \in DOMAIN qargs(a).val : qargs(a).val[i] = q)
        <=> (\E i \in DOMAIN qargs(b).val : qargs(b).val[i] = q)

\* What every accessor returns on node n.
View(n) == <<type(n), op(n), name(n), qargs(n), cargs(n), condition(n), wire(n)>>

IsSetter == ret.op \in {"set_name", "set_qargs"}

\* ---- C1 ----
\* C1: for two nodes that are not both named "barrier", semantic_eq returns
\* true exactly when the two payload dicts are equal field by field; two such
\* nodes that differ only in the order of their quantum operands are not
\* semantic_eq.
C1_NonBarrierIsFieldEquality ==
    (IsCall("semantic_eq") /\ ~BothBarrier(Arg(1), Arg(2)))
        => /\ ret.out.kind = "return"
           /\ ret.out.val <=> FieldsEqual(Arg(1), Arg(2))
           /\ QargsReordered(Arg(1), Arg(2)) => ret.out.val = FALSE

C1_Witness ==
    /\ IsCall("semantic_eq")
    /\ ~BothBarrier(Arg(1), Arg(2))
    /\ name(Arg(1)).val = "x"
    /\ type(Arg(1)).val = "op"
    /\ QargsReordered(Arg(1), Arg(2))
    /\ ret.out.val = FALSE

\* ---- C2 ----
\* C2: for two nodes both named "barrier", semantic_eq returns true exactly
\* when the two nodes have the same set of quantum operands, whatever their
\* order and whatever the other fields hold.
C2_BarrierIsOperandSetEquality ==
    (IsCall("semantic_eq") /\ BothBarrier(Arg(1), Arg(2)))
        => /\ ret.out.kind = "return"
           /\ ret.out.val <=> SameOperandSet(Arg(1), Arg(2))

\* Same set in a different order, and the other fields differ too.
C2_Witness ==
    /\ IsCall("semantic_eq")
    /\ BothBarrier(Arg(1), Arg(2))
    /\ qargs(Arg(1)).val = <<"q0", "q1">>
    /\ qargs(Arg(2)).val = <<"q1", "q0">>
    /\ op(Arg(1)) # op(Arg(2))
    /\ ret.out.val = TRUE

\* ---- C3 ----
\* C3: two distinct node objects holding identical payloads and different
\* _node_id are never equal under the hash and equality used by sets and
\* maps (a set of the two has two entries), and semantic_eq of the two is
\* true.
C3_IdentityEqButSemanticEq ==
    \A a, b \in Addr :
        (a # b /\ data_dict(a) = data_dict(b)
              /\ nodes[a]._node_id # nodes[b]._node_id)
            => /\ ~eq(a, b)
               /\ hash(a) # hash(b)
               /\ Cardinality({hash(a), hash(b)}) = 2
               /\ semantic_eq(a, b)
               /\ (IsCall("eq") /\ ret.args = <<a, b>>) => ret.out = Return(FALSE)
               /\ (IsCall("semantic_eq") /\ ret.args = <<a, b>>) => ret.out = Return(TRUE)

C3_Witness ==
    /\ IsCall("semantic_eq")
    /\ Arg(1) # Arg(2)
    /\ nodes[Arg(1)].data_dict # nodes[Arg(2)].data_dict
    /\ data_dict(Arg(1)) = data_dict(Arg(2))
    /\ nodes[Arg(1)]._node_id # nodes[Arg(2)]._node_id
    /\ ~eq(Arg(1), Arg(2))
    /\ ret.out = Return(TRUE)

\* ---- C4 ----
\* C4: wire on a node whose type is neither 'in' nor 'out', the unset type
\* included, raises QiskitError and nothing else, and returns no value.
C4_WireRaisesQiskitError ==
    (IsCall("wire") /\ type(Arg(1)).val \notin {"in", "out"})
        => ret.out = Raise("QiskitError")

\* ---- C5 ----
\* C5: op on a node whose type is not 'op' (a terminal, or type unset) raises
\* QiskitError and returns no value; on a node of type 'op' it returns the
\* stored operation.
C5_OpRaisesOrReturnsStored ==
    IsCall("op")
        => IF type(Arg(1)).val = "op"
           THEN /\ ret.out.kind = "return"
                /\ "op" \in DOMAIN data_dict(Arg(1))
                       => ret.out.val = data_dict(Arg(1))["op"]
           ELSE ret.out = Raise("QiskitError")

C5_Witness ==
    /\ IsCall("op")
    /\ "type" \notin DOMAIN data_dict(Arg(1))
    /\ ret.out = Raise("QiskitError")
    /\ \E m \in Addr : type(m).val = "op" /\ op(m) = Return("g1")

\* ---- C6 ----
\* C6: a set_name or set_qargs call on a node is visible to the accessors of
\* that node and changes what no accessor returns on any other node.
C6_MutationIsLocal ==
    [][ \A n \in Addr :
          (IsSetter' /\ ret'.args[1] = n)
            => /\ (ret'.op = "set_name" => name(n)' = Return(ret'.args[2]))
               /\ (ret'.op = "set_qargs" => qargs(n)' = Return(ret'.args[2]))
               /\ \A m \in Addr : m # n => View(m)' = View(m) ]_vars

\* ---- C7 ----
\* < and > follow the nid each node was constructed with, in every state,
\* that is after any sequence of set_name and set_qargs calls.
OrderFollowsAssignedId ==
    \A a, b \in Addr :
        /\ lt(a, b) <=> assigned[a] < assigned[b]
        /\ gt(a, b) <=> assigned[a] > assigned[b]
        /\ (IsCall("lt") /\ ret.args = <<a, b>>) => ret.out = Return(assigned[a] < assigned[b])
        /\ (IsCall("gt") /\ ret.args = <<a, b>>) => ret.out = Return(assigned[a] > assigned[b])

\* C7 as stated: < and > follow the construction-assigned identities, of any
\* two distinct nodes exactly one is below the other, and no payload
\* mutation changes the order.
C7_TotalOrderOnAllNodes ==
    /\ OrderFollowsAssignedId
    /\ \A a, b \in Addr : a # b => (lt(a, b) /\ ~lt(b, a)) \/ (lt(b, a) /\ ~lt(a, b))

\* C7 amended: < and > follow the construction-assigned identities, after
\* any payload mutations; of two nodes with different identities exactly
\* one is below the other, and two nodes with the same identity (both left
\* at the default -1, say) are unordered.
C7_StrictOrderByNodeId ==
    /\ OrderFollowsAssignedId
    /\ \A a, b \in Addr :
          IF assigned[a] # assigned[b]
          THEN (lt(a, b) /\ ~lt(b, a)) \/ (lt(b, a) /\ ~lt(a, b))
          ELSE ~lt(a, b) /\ ~lt(b, a) /\ ~gt(a, b) /\ ~gt(b, a)

\* Two nodes with different identities compared after both payloads were
\* mutated.
C7_Witness ==
    /\ IsCall("lt")
    /\ assigned[Arg(1)] < assigned[Arg(2)]
    /\ ret.out = Return(TRUE)
    /\ nodes[Arg(1)].data_dict # nodes[Arg(2)].data_dict
    /\ name(Arg(1)).val = "barrier"
    /\ qargs(Arg(2)).val = <<"q1", "q0">>
    /\ data_dict(Arg(1)) \notin Payloads /\ data_dict(Arg(2)) \notin Payloads

\* ---- C8 ----
\* C8: semantic_eq(a, b) = semantic_eq(b, a) for every two nodes, barrier
\* named or not.
C8_SemanticEqSymmetric ==
    /\ \A a, b \in Addr : semantic_eq(a, b) = semantic_eq(b, a)
    /\ IsCall("semantic_eq") => ret.out.val = semantic_eq(Arg(2), Arg(1))

\* One node named barrier, the other not, with the same operands.
C8_Witness ==
    /\ IsCall("semantic_eq")
    /\ name(Arg(1)).val = "barrier"
    /\ name(Arg(2)).val = "x"
    /\ qargs(Arg(1)).val = qargs(Arg(2)).val
    /\ ret.out.val = FALSE
    /\ semantic_eq(Arg(2), Arg(1)) = FALSE

\* ---- C9 ----
\* C9: type, name, qargs, cargs and condition never raise, whatever the
\* node's type: unset operands read as the empty list, an unset type, name
\* or condition reads as None.
C9_OtherAccessorsTotal ==
    /\ IsCall("type") \/ IsCall("name") \/ IsCall("qargs") \/ IsCall("cargs")
          \/ IsCall("condition")
          => /\ ret.out.kind = "return"
             /\ ret.op \notin DOMAIN data_dict(Arg(1))
                   => ret.out.val = (IF ret.op \in {"qargs", "cargs"} THEN <<>> ELSE NONE)
    /\ \A n \in Addr :
          /\ type(n).kind = "return" /\ name(n).kind = "return"
          /\ qargs(n).kind = "return" /\ cargs(n).kind = "return"
          /\ condition(n).kind = "return"

C9_Witness ==
    /\ IsCall("qargs")
    /\ data_dict(Arg(1)) = <<>>
    /\ ret.out = Return(<<>>)

\* ---- C10 ----
\* C10: semantic_eq is reflexive and transitive, and a node named barrier
\* is never semantic_eq to a node not named barrier.
C10_SemanticEqEquivalence ==
    /\ \A a \in Addr : semantic_eq(a, a)
    /\ \A a, b, c \in Addr :
          (semantic_eq(a, b) /\ semantic_eq(b, c)) => semantic_eq(a, c)
    /\ \A a, b \in Addr :
          (name(a).val = "barrier" /\ name(b).val # "barrier") => ~semantic_eq(a, b)
    /\ (IsCall("semantic_eq") /\ Arg(1) = Arg(2)) => ret.out = Return(TRUE)

\* A chain through the barrier branch: three barrier nodes with pairwise
\* different dicts and the same operand set.
C10_Witness ==
    /\ IsCall("semantic_eq")
    /\ ret.args = <<1, 3>>
    /\ ret.out = Return(TRUE)
    /\ semantic_eq(1, 2) /\ semantic_eq(2, 3)
    /\ data_dict(1) # data_dict(2) /\ data_dict(2) # data_dict(3)
    /\ data_dict(1) # data_dict(3)
    /\ name(1).val = "barrier"
====
